---- MODULE Spec2Model ----
(***************************************************************************)
(* Model of the SEO analyzer backend: the POST /api/analyze route          *)
(* (routes/analyze), the fetch / parse / score service (seoService) and    *)
(* the error classifier (utils/errorHandler).                              *)
(*                                                                         *)
(* JavaScript strings are TLA+ strings; String.prototype.includes, trim    *)
(* and template literals are computed character by character with Len,    *)
(* SubSeq and \o.                                                          *)
(***************************************************************************)
EXTENDS Integers, Sequences, FiniteSets, TLC

(***************************************************************************)
(* Bounds of the model.                                                    *)
(***************************************************************************)
MaxH1 == 2

MaxImgs == 2

MaxReqs == 2

(***************************************************************************)
(* String primitives.                                                      *)
(***************************************************************************)
CharAt(s, i) == SubSeq(s, i, i)

\* String.prototype.includes
Includes(m, p) ==
  \E i \in 1..(Len(m) - Len(p) + 1) : SubSeq(m, i, i + Len(p) - 1) = p

\* String.prototype.startsWith
StartsWith(s, p) == Len(s) >= Len(p) /\ SubSeq(s, 1, Len(p)) = p

InStr(c, chars) == \E i \in 1..Len(chars) : CharAt(chars, i) = c

WhiteSpace == " \t\n\r"

\* String.prototype.trim
Trim(s) ==
  LET solid == {i \in 1..Len(s) : ~InStr(CharAt(s, i), WhiteSpace)}
  IN  IF solid = {} THEN ""
      ELSE LET lo == CHOOSE i \in solid : \A j \in solid : i <= j
               hi == CHOOSE i \in solid : \A j \in solid : j <= i
           IN  SubSeq(s, lo, hi)

UpperAlpha == "ABCDEFGHIJKLMNOPQRSTUVWXYZ"

LowerAlpha == "abcdefghijklmnopqrstuvwxyz"

Digits == "0123456789"

LowerChar(c) ==
  IF InStr(c, UpperAlpha)
    THEN CharAt(LowerAlpha, CHOOSE i \in 1..Len(UpperAlpha) : CharAt(UpperAlpha, i) = c)
    ELSE c

RECURSIVE ToLower(_)
ToLower(s) ==
  IF Len(s) = 0 THEN "" ELSE LowerChar(CharAt(s, 1)) \o ToLower(SubSeq(s, 2, Len(s)))

\* index of the first character of s at or after position from that is in chars; 0 if none
FirstOf(s, chars, from) ==
  LET hits == {i \in from..Len(s) : InStr(CharAt(s, i), chars)}
  IN  IF hits = {} THEN 0 ELSE CHOOSE i \in hits : \A j \in hits : i <= j

(***************************************************************************)
(* JavaScript values as they arrive in a parsed JSON body.                 *)
(***************************************************************************)
JsUndefined == [t |-> "undefined", str |-> "", num |-> 0, bool |-> FALSE]

JsNull == [t |-> "object", str |-> "null", num |-> 0, bool |-> FALSE]

JsObject == [t |-> "object", str |-> "{}", num |-> 0, bool |-> TRUE]

JsString(s) == [t |-> "string", str |-> s, num |-> 0, bool |-> FALSE]

JsNumber(n) == [t |-> "number", str |-> "", num |-> n, bool |-> FALSE]

JsBool(b) == [t |-> "boolean", str |-> "", num |-> 0, bool |-> b]

\* typeof v
TypeOf(v) == v.t

\* ToBoolean(v), the test behind !v
Truthy(v) ==
  CASE v.t = "undefined" -> FALSE
    [] v.t = "object" -> v.bool
    [] v.t = "boolean" -> v.bool
    [] v.t = "number" -> v.num # 0
    [] v.t = "string" -> Len(v.str) > 0

(***************************************************************************)
(* new URL(input [, base]): the scheme, host and failure rules of the      *)
(* WHATWG parser that the route and the extractor depend on.               *)
(***************************************************************************)
SpecialSchemes == {"http", "https", "ftp", "ws", "wss"}

BadUrl == [ok |-> FALSE, protocol |-> "", hostname |-> ""]

SchemeChars == UpperAlpha \o LowerAlpha \o Digits \o "+-."

ForbiddenHostChars == " <>[]^|%"

\* position of the ":" that ends a valid scheme, 0 if the input has no scheme
SchemeEnd(s) ==
  LET c == FirstOf(s, ":", 1)
  IN  IF /\ c > 1
         /\ InStr(CharAt(s, 1), UpperAlpha \o LowerAlpha)
         /\ \A j \in 2..(c - 1) : InStr(CharAt(s, j), SchemeChars)
        THEN c ELSE 0

\* first position of rest that is not a slash
SkipSlashes(rest) ==
  LET nonSlash == {i \in 1..Len(rest) : ~InStr(CharAt(rest, i), "/\\")}
  IN  IF nonSlash = {} THEN Len(rest) + 1
      ELSE CHOOSE i \in nonSlash : \A j \in nonSlash : i <= j

AuthorityBetween(rest, start, stop) ==
  SubSeq(rest, start, IF stop = 0 THEN Len(rest) ELSE stop - 1)

AuthorityFrom(rest, start) == AuthorityBetween(rest, start, FirstOf(rest, "/\\?#", start))

\* the authority of a special URL: after any slashes, up to the path, query or fragment
Authority(rest) == AuthorityFrom(rest, SkipSlashes(rest))

\* the authority without its userinfo
HostPort(auth) ==
  LET at == {i \in 1..Len(auth) : CharAt(auth, i) = "@"}
  IN  IF at = {} THEN auth
      ELSE SubSeq(auth, (CHOOSE i \in at : \A j \in at : j <= i) + 1, Len(auth))

StripPortAt(hostport, colon) ==
  IF colon = 0 THEN hostport ELSE SubSeq(hostport, 1, colon - 1)

StripPort(hostport) == StripPortAt(hostport, FirstOf(hostport, ":", 1))

HostOf(rest) == StripPort(HostPort(Authority(rest)))

\* a special scheme needs a host without forbidden code points
SpecialUrl(scheme, host) ==
  IF host = "" \/ \E i \in 1..Len(host) : InStr(CharAt(host, i), ForbiddenHostChars)
    THEN BadUrl
    ELSE [ok |-> TRUE, protocol |-> scheme \o ":", hostname |-> ToLower(host)]

ParseSchemeRest(scheme, rest) ==
  IF scheme \in SpecialSchemes
    THEN SpecialUrl(scheme, HostOf(rest))
    ELSE [ok |-> TRUE, protocol |-> scheme \o ":", hostname |-> ""]

\* s with its scheme ending at position c (0: no scheme, the parse fails)
ParseWithScheme(s, c) ==
  IF c = 0 THEN BadUrl
  ELSE ParseSchemeRest(ToLower(SubSeq(s, 1, c - 1)), SubSeq(s, c + 1, Len(s)))

ParseAbsolute(s) == ParseWithScheme(s, SchemeEnd(s))

\* new URL(url): leading and trailing spaces are stripped, a failure is a thrown TypeError
NewURL(s) == ParseAbsolute(Trim(s))

\* h resolved against the parsed base b, c being the end of h's scheme
ResolveScheme(h, b, c) ==
  IF c # 0
    THEN IF ToLower(SubSeq(h, 1, c - 1)) \o ":" = b.protocol
              /\ ~StartsWith(SubSeq(h, c + 1, Len(h)), "/")
           THEN b
           ELSE ParseWithScheme(h, c)
  ELSE IF StartsWith(h, "//")
    THEN ParseAbsolute(b.protocol \o h)
  ELSE b

Resolve(h, b) == ResolveScheme(h, b, SchemeEnd(h))

\* new URL(href, base): an href without a scheme resolves against the base
NewURLWithBase(href, base) == Resolve(Trim(href), NewURL(base))

(***************************************************************************)
(* Error objects: an Error has a message; axios errors also carry a code   *)
(* and, when the target answered, the response with its status.            *)
(***************************************************************************)
\* new Error(message)
NewError(msg) == [message |-> msg, code |-> "", hasResponse |-> FALSE, status |-> 0]

AxiosError(msg, code) == [message |-> msg, code |-> code, hasResponse |-> FALSE, status |-> 0]

\* the error axios raises when validateStatus rejects the target's status
AxiosStatusError(st) ==
  [message |-> "Request failed with status code " \o ToString(st),
   code |-> IF st >= 500 THEN "ERR_BAD_RESPONSE" ELSE "ERR_BAD_REQUEST",
   hasResponse |-> TRUE, status |-> st]

NoError == NewError("")

(***************************************************************************)
(* The page: response.data as a string of a given length whose markup is   *)
(* the element lists the extractor's selectors see.                        *)
(***************************************************************************)
NoDoc == [titles |-> <<>>, metas |-> <<>>, h1Count |-> 0, imgs |-> <<>>, links |-> <<>>]

\* response.data: kind "string", or kind "json" when axios parsed the body as JSON
StringBody(len, blank, doc) ==
  [kind |-> "string", truthy |-> len > 0, len |-> len, blank |-> blank, doc |-> doc]

JsonBody(truthy) ==
  [kind |-> "json", truthy |-> truthy, len |-> 0, blank |-> FALSE, doc |-> NoDoc]

NoBody == StringBody(0, TRUE, NoDoc)

MAX_SIZE == 10 * 1024 * 1024

ValidateStatus(status) == status >= 200 /\ status < 300

(***************************************************************************)
(* fetchHTML                                                               *)
(***************************************************************************)
Returned(html) == [threw |-> FALSE, error |-> NoError, html |-> html]

Threw(e) == [threw |-> TRUE, error |-> e, html |-> NoBody]

\* variant: the size check runs before the empty check
FetchTry_SizeFirst(response) ==
  LET contentType == response.contentType
      html == response.data
  IN  IF ~Includes(contentType, "text/html") /\ ~Includes(contentType, "text/plain")
        THEN Threw(NewError("URL does not return HTML content"))
      ELSE IF html.len > MAX_SIZE
        THEN Threw(NewError("Page too large: Content exceeds 10MB limit"))
      ELSE IF ~html.truthy \/ html.kind # "string" \/ html.blank
        THEN Threw(NewError("Empty HTML: Page returned no content"))
      ELSE Returned(html)

\* variant: the size limit itself is rejected
FetchTry_LimitRejected(response) ==
  LET contentType == response.contentType
      html == response.data
  IN  IF ~Includes(contentType, "text/html") /\ ~Includes(contentType, "text/plain")
        THEN Threw(NewError("URL does not return HTML content"))
      ELSE IF ~html.truthy \/ html.kind # "string" \/ html.blank
        THEN Threw(NewError("Empty HTML: Page returned no content"))
      ELSE IF html.len >= MAX_SIZE
        THEN Threw(NewError("Page too large: Content exceeds 10MB limit"))
      ELSE Returned(html)

\* the try block after axios.get has resolved
FetchTry(response) ==
  LET contentType == response.contentType
      html == response.data
  IN  IF ~Includes(contentType, "text/html") /\ ~Includes(contentType, "text/plain")
        THEN Threw(NewError("URL does not return HTML content"))
      ELSE IF ~html.truthy \/ html.kind # "string" \/ html.blank
        THEN Threw(NewError("Empty HTML: Page returned no content"))
      ELSE IF html.len > MAX_SIZE
        THEN Threw(NewError("Page too large: Content exceeds 10MB limit"))
      ELSE Returned(html)

\* the catch block: every error is replaced by a new Error carrying only a message
FetchCatch(error) ==
  IF error.code = "ECONNABORTED"
    THEN NewError("Request timeout: URL did not respond in time")
  ELSE IF error.code = "ENOTFOUND" \/ error.code = "EAI_AGAIN"
    THEN NewError("DNS lookup failed: Unable to resolve domain name")
  ELSE IF error.code = "ECONNREFUSED"
    THEN NewError("Connection refused: Server is not accepting connections")
  ELSE IF error.code = "ETIMEDOUT"
    THEN NewError("Connection timeout: Unable to establish connection")
  ELSE IF error.hasResponse
    THEN IF error.status >= 400 /\ error.status < 500
           THEN NewError("Client error: Server returned " \o ToString(error.status) \o " status code")
         ELSE IF error.status >= 500
           THEN NewError("Server error: Server returned " \o ToString(error.status) \o " status code")
         ELSE NewError("HTTP error: Server returned " \o ToString(error.status) \o " status code")
  ELSE IF \/ error.code = "UNABLE_TO_VERIFY_LEAF_SIGNATURE"
          \/ error.code = "CERT_HAS_EXPIRED"
          \/ error.code = "SELF_SIGNED_CERT_IN_CHAIN"
    THEN NewError("SSL certificate error: Invalid or expired certificate")
  ELSE IF error.message # ""
    THEN NewError("Failed to fetch URL: " \o error.message)
  ELSE NewError("Unknown error occurred while fetching URL")

\* an error thrown inside the try block is caught by the function's own catch block
Rethrow(r) == IF r.threw THEN Threw(FetchCatch(r.error)) ELSE r

\* fetchHTML once axios.get has settled with outcome o
FetchHTML(o) ==
  IF o.resolved THEN Rethrow(FetchTry(o.response)) ELSE Threw(FetchCatch(o.error))

(***************************************************************************)
(* handleError                                                             *)
(***************************************************************************)
Classified(st, label, msg) == [threw |-> FALSE, status |-> st, error |-> label, message |-> msg]

\* handleError itself throws (ReferenceError) instead of returning
ClassifierThrew == [threw |-> TRUE, status |-> 0, error |-> "", message |-> "err is not defined"]

\* whether the identifier err is bound where handleError reads err.response:
\* the parameter is named error and the module declares no err
ErrIsBound == FALSE

\* the rows of the classifier, in the order they are tried
IsInvalidUrlError(message) ==
  \/ Includes(message, "Invalid URL")
  \/ Includes(message, "URL must be")
  \/ Includes(message, "Missing required field")
  \/ Includes(message, "Invalid input type")

\* variant: the row tests only the axios codes
IsTimeoutError_CodesOnly(message, error) ==
  error.code = "ECONNABORTED" \/ error.code = "ETIMEDOUT"

IsTimeoutError(message, error) ==
  \/ Includes(message, "timeout")
  \/ Includes(message, "did not respond in time")
  \/ error.code = "ECONNABORTED"
  \/ error.code = "ETIMEDOUT"

IsBlockedError(message, error) ==
  \/ Includes(message, "Connection refused")
  \/ Includes(message, "blocked")
  \/ error.code = "ECONNREFUSED"
  \/ (error.hasResponse /\ error.status = 403)

IsEmptyHtmlError(message) ==
  Includes(message, "Empty HTML") \/ Includes(message, "No content")

IsTooLargeError(message) ==
  Includes(message, "too large") \/ Includes(message, "exceeds size limit")

IsDnsError(message, error) ==
  \/ Includes(message, "DNS lookup failed")
  \/ Includes(message, "Unable to resolve")
  \/ error.code = "ENOTFOUND"
  \/ error.code = "EAI_AGAIN"

HandleError(error) ==
  LET message == IF error.message # "" THEN error.message ELSE "Unknown error occurred"
  IN  IF IsInvalidUrlError(message)
        THEN Classified(400, "Invalid Request", message)
      ELSE IF IsTimeoutError(message, error)
        THEN Classified(408, "Request Timeout", "The request timed out while fetching the URL")
      ELSE IF IsBlockedError(message, error)
        THEN Classified(403, "Access Forbidden",
                        "The website is blocking access or refusing connections")
      ELSE IF IsEmptyHtmlError(message)
        THEN Classified(422, "Unprocessable Content", "The page returned empty or no HTML content")
      ELSE IF IsTooLargeError(message)
        THEN Classified(413, "Payload Too Large",
                        "The page content exceeds the maximum allowed size")
      ELSE IF IsDnsError(message, error)
        THEN Classified(502, "Bad Gateway", "Unable to resolve the domain name")
      ELSE IF error.hasResponse /\ error.status >= 500
        THEN Classified(502, "Bad Gateway",
                        "Target server returned error: " \o ToString(error.status))
      ELSE IF error.hasResponse /\ error.status >= 400 /\ error.status < 500
        THEN Classified(400, "Bad Request",
                        "Target server returned error: " \o ToString(error.status))
      ELSE IF ~ErrIsBound
        THEN ClassifierThrew
      ELSE Classified(500, "Internal Server Error",
                      "An unexpected error occurred during analysis")

(***************************************************************************)
(* parseSEOData                                                            *)
(***************************************************************************)
\* $(selector).attr(name) on a list of matched elements: the first element's attribute
AttrContent(matched) ==
  IF Len(matched) = 0 \/ ~matched[1].hasContent THEN JsUndefined ELSE JsString(matched[1].content)

\* $('meta[name="..."]'): the attribute value is compared exactly
SelectMeta(metas, name) == SelectSeq(metas, LAMBDA m : m.name = name)

\* a || b
Or(a, b) == IF Truthy(a) THEN a ELSE b

\* variant: the alt text is not trimmed
MissingAlt_NoTrim(img) == ~img.hasAlt \/ img.alt = ""

MissingAlt(img) == ~img.hasAlt \/ Trim(img.alt) = ""

\* linkUrl.hostname === baseDomain; a link that does not parse is skipped
SameHost(linkUrl, urlObj) == linkUrl.ok /\ linkUrl.hostname = urlObj.hostname

IsInternalLink(href, url) ==
  IF href = "" THEN FALSE
  ELSE IF StartsWith(href, "/") \/ StartsWith(href, "./") \/ StartsWith(href, "../") THEN TRUE
  ELSE SameHost(NewURLWithBase(href, url), NewURL(url))

\* $('title').first().text().trim()
FirstTitle(titles) == IF Len(titles) = 0 THEN "" ELSE Trim(titles[1])

ParseSEOData(html, url) ==
  [title |-> Or(JsString(FirstTitle(html.doc.titles)), JsNull),
   metaDescription |->
     Or(AttrContent(SelectMeta(html.doc.metas, "description")),
        Or(AttrContent(SelectMeta(html.doc.metas, "Description")), JsNull)),
   h1Count |-> html.doc.h1Count,
   totalImages |-> Len(html.doc.imgs),
   imagesMissingAlt |->
     Cardinality({i \in 1..Len(html.doc.imgs) : MissingAlt(html.doc.imgs[i])}),
   totalInternalLinks |->
     Cardinality({i \in 1..Len(html.doc.links) : IsInternalLink(html.doc.links[i], url)}),
   usesHTTPS |-> NewURL(url).protocol = "https:"]

NoSeoData ==
  [title |-> JsNull, metaDescription |-> JsNull, h1Count |-> 0, totalImages |-> 0,
   imagesMissingAlt |-> 0, totalInternalLinks |-> 0, usesHTTPS |-> FALSE]

(***************************************************************************)
(* calculateScore                                                          *)
(***************************************************************************)
POINTS == 20

MAX_SCORE == 100

Min(a, b) == IF a < b THEN a ELSE b

\* variant: a failed check records no issue
Check_DropsIssue(acc, pass, points, passMsg, failMsg) ==
  IF pass
    THEN [score |-> acc.score + points, issues |-> acc.issues,
          passedChecks |-> Append(acc.passedChecks, passMsg)]
    ELSE acc

\* one check: on pass add the points and push the message to passedChecks,
\* otherwise push the issue text to issues
Check(acc, pass, points, passMsg, failMsg) ==
  IF pass
    THEN [score |-> acc.score + points, issues |-> acc.issues,
          passedChecks |-> Append(acc.passedChecks, passMsg)]
    ELSE [score |-> acc.score, issues |-> Append(acc.issues, failMsg),
          passedChecks |-> acc.passedChecks]

NoScore == [score |-> 0, issues |-> <<>>, passedChecks |-> <<>>]

\* score = Math.min(score, 100); return {score, issues, passedChecks}
Clamp(acc) ==
  [score |-> Min(acc.score, MAX_SCORE), issues |-> acc.issues, passedChecks |-> acc.passedChecks]

CalculateScore(seoData) ==
  Clamp(
    Check(
      Check(
        Check(
          Check(
            Check(NoScore, Truthy(seoData.title), POINTS,
                  "Page has a title tag", "Missing page title tag"),
            Truthy(seoData.metaDescription), POINTS,
            "Page has a meta description", "Missing meta description"),
          seoData.h1Count >= 1, POINTS,
          "Page has at least one H1 tag", "No H1 tags found on the page"),
        seoData.totalImages = 0 \/ seoData.imagesMissingAlt = 0, POINTS,
        "All images have alt text",
        ToString(seoData.imagesMissingAlt) \o " image(s) missing alt text"),
      seoData.usesHTTPS, POINTS,
      "Page uses HTTPS", "Page does not use HTTPS"))

(***************************************************************************)
(* Responses written by the route.                                         *)
(***************************************************************************)
NoResponse ==
  [kind |-> "none", status |-> 0, error |-> "", message |-> "", url |-> "",
   seoScore |-> 0, checks |-> <<>>, issues |-> <<>>, passedChecks |-> <<>>]

\* res.status(st).json({error, message})
ErrorJson(st, label, msg) ==
  [kind |-> "error", status |-> st, error |-> label, message |-> msg, url |-> "",
   seoScore |-> 0, checks |-> <<>>, issues |-> <<>>, passedChecks |-> <<>>]

\* variant: checks lists the issues first
SuccessJson_IssuesFirst(url, scoreResult) ==
  [kind |-> "success", status |-> 200, error |-> "", message |-> "", url |-> url,
   seoScore |-> scoreResult.score,
   checks |-> scoreResult.issues \o scoreResult.passedChecks,
   issues |-> scoreResult.issues,
   passedChecks |-> scoreResult.passedChecks]

\* res.json({url, seoScore, checks, issues, passedChecks})
SuccessJson(url, scoreResult) ==
  [kind |-> "success", status |-> 200, error |-> "", message |-> "", url |-> url,
   seoScore |-> scoreResult.score,
   checks |-> scoreResult.passedChecks \o scoreResult.issues,
   issues |-> scoreResult.issues,
   passedChecks |-> scoreResult.passedChecks]

\* the page the framework's default error handler writes for an error passed to next()
FrameworkErrorPage ==
  [kind |-> "framework", status |-> 500, error |-> "", message |-> "", url |-> "",
   seoScore |-> 0, checks |-> <<>>, issues |-> <<>>, passedChecks |-> <<>>]

\* what the caller sees when the async handler's promise rejects: a router that does
\* not observe the promise leaves the request unanswered, one that does forwards the
\* error to the default error handler
UncaughtOutcomes == {NoResponse, FrameworkErrorPage}

\* the try around new URL(url): a thrown TypeError is a format failure, then the protocol
ValidateFormat(urlObj) ==
  IF ~urlObj.ok
    THEN ErrorJson(400, "Invalid URL format", "URL must be a valid URL")
  ELSE IF urlObj.protocol # "http:" /\ urlObj.protocol # "https:"
    THEN ErrorJson(400, "Invalid URL protocol", "URL must use http or https protocol")
  ELSE NoResponse

\* the validation section of the route; NoResponse means the url passed
Validate(url) ==
  IF ~Truthy(url)
    THEN ErrorJson(400, "Missing required field", "URL is required in request body")
  ELSE IF TypeOf(url) # "string"
    THEN ErrorJson(400, "Invalid input type", "URL must be a string")
  ELSE ValidateFormat(NewURL(url.str))

(***************************************************************************)
(* The environment: request bodies, pages and fetch outcomes.              *)
(***************************************************************************)
UrlInputs ==
  {JsUndefined, JsNull, JsString(""), JsNumber(0), JsBool(FALSE), JsNumber(12345),
   JsBool(TRUE), JsObject, JsString("not a url"), JsString("http://"),
   JsString("ftp://example.com"), JsString("mailto:seo@example.com"),
   JsString("http://example.com"), JsString("https://example.com"),
   JsString("HTTPS://Example.com/page")}

Meta(name, content) == [name |-> name, hasContent |-> TRUE, content |-> content]

MetaNoContent(name) == [name |-> name, hasContent |-> FALSE, content |-> ""]

Titles == {<<>>, <<"   ">>, <<" Test ">>, <<"", "Second">>}

Metas ==
  {<<>>,
   <<Meta("description", "desc")>>,
   <<Meta("Description", "Desc")>>,
   <<Meta("DESCRIPTION", "DESC")>>,
   <<MetaNoContent("description"), Meta("description", "second")>>,
   <<Meta("description", ""), Meta("Description", "fallback")>>}

Alts ==
  {[hasAlt |-> FALSE, alt |-> ""], [hasAlt |-> TRUE, alt |-> "  "], [hasAlt |-> TRUE, alt |-> "logo"]}

ImgLists == UNION {[1..n -> Alts] : n \in 0..MaxImgs}

LinkLists ==
  {<<>>, <<"/about", "https://example.com/x", "https://other.org/", "", "#top", "http://">>}

Docs ==
  {[titles |-> t, metas |-> m, h1Count |-> h, imgs |-> i, links |-> l] :
     t \in Titles, m \in Metas, h \in 0..MaxH1, i \in ImgLists, l \in LinkLists}

FullDoc ==
  [titles |-> <<"Test">>, metas |-> <<Meta("description", "desc")>>, h1Count |-> 1,
   imgs |-> <<[hasAlt |-> TRUE, alt |-> "x"]>>, links |-> <<>>]

\* the bodies that decide the fetcher's checks: empty, blank, parsed as JSON, and a
\* page just below, at and above the size limit
EdgeBodies ==
  {StringBody(0, TRUE, NoDoc), StringBody(3, TRUE, NoDoc), StringBody(MAX_SIZE + 1, TRUE, NoDoc),
   JsonBody(TRUE), JsonBody(FALSE)}
  \cup {StringBody(n, FALSE, FullDoc) : n \in {512, MAX_SIZE, MAX_SIZE + 1}}

Bodies == EdgeBodies \cup {StringBody(512, FALSE, d) : d \in Docs}

ContentTypes == {"", "text/html; charset=utf-8", "text/plain", "application/json"}

NoAxiosResponse == [status |-> 0, contentType |-> "", data |-> NoBody]

\* statuses the target may answer with, redirects already followed
Statuses == {200, 204, 304, 400, 403, 404, 429, 499, 500, 503, 599, 999}

\* responses that pass validateStatus: axios.get resolves with them
Responses ==
  {[status |-> 200, contentType |-> "text/html; charset=utf-8", data |-> b] : b \in Bodies}
  \cup {[status |-> 200, contentType |-> ct, data |-> b] : ct \in ContentTypes, b \in EdgeBodies}
  \cup {[status |-> st, contentType |-> ct, data |-> NoBody] :
          st \in {x \in Statuses : ValidateStatus(x)} \ {200}, ct \in ContentTypes}

\* statuses that fail validateStatus: axios.get rejects with them
TargetStatuses == {st \in Statuses : ~ValidateStatus(st)}

TransportErrors ==
  {AxiosError("timeout of 10000ms exceeded", "ECONNABORTED"),
   AxiosError("connect ETIMEDOUT 93.184.216.34:443", "ETIMEDOUT"),
   AxiosError("getaddrinfo ENOTFOUND example.com", "ENOTFOUND"),
   AxiosError("getaddrinfo EAI_AGAIN example.com", "EAI_AGAIN"),
   AxiosError("connect ECONNREFUSED 93.184.216.34:443", "ECONNREFUSED"),
   AxiosError("socket hang up", "ECONNRESET"),
   AxiosError("Maximum number of redirects exceeded", "ERR_FR_TOO_MANY_REDIRECTS"),
   AxiosError("write EPROTO SSL routines:ssl3_read_bytes:sslv3 alert handshake failure", "EPROTO")}

AxiosErrors == TransportErrors \cup {AxiosStatusError(st) : st \in TargetStatuses}

NoOutcome == [resolved |-> FALSE, response |-> NoAxiosResponse, error |-> NoError]

Resolved(r) == [resolved |-> TRUE, response |-> r, error |-> NoError]

Rejected(e) == [resolved |-> FALSE, response |-> NoAxiosResponse, error |-> e]

(***************************************************************************)
(* The route handler as a state machine.  The handler runs from the        *)
(* arrival of the request to the await of fetchHTML (axios.get is in       *)
(* flight), and from the settling of axios.get to its end.                 *)
(***************************************************************************)
VARIABLES
  pc,           \* "idle" (no request yet), "awaiting" (axios.get in flight), "done"
  url,          \* req.body.url
  stages,       \* the stages the handler has entered, in order
  outcome,      \* how axios.get settled
  caught,       \* the error caught by the route's catch block
  seoData,      \* result of parseSEOData
  scoreResult,  \* result of calculateScore
  response,     \* what the caller received
  sent,         \* number of responses written for the request
  rejected      \* the handler's promise rejected

vars == <<pc, url, stages, outcome, caught, seoData, scoreResult, response, sent, rejected>>

Init ==
  /\ pc = "idle"
  /\ url = JsUndefined
  /\ stages = <<>>
  /\ outcome = NoOutcome
  /\ caught = NoError
  /\ seoData = NoSeoData
  /\ scoreResult = NoScore
  /\ response = NoResponse
  /\ sent = 0
  /\ rejected = FALSE

\* variant: a validation failure answers 400 but does not return
Post_NoEarlyReturn(u) ==
  /\ pc = "idle"
  /\ url' = u
  /\ outcome' = NoOutcome
  /\ caught' = NoError
  /\ seoData' = NoSeoData
  /\ scoreResult' = NoScore
  /\ rejected' = FALSE
  /\ response' = Validate(u)
  /\ sent' = IF response' # NoResponse THEN 1 ELSE 0
  /\ stages' = <<"validate", "fetch">>
  /\ pc' = "awaiting"

\* POST /api/analyze with body {url: u}: validation, then the call of fetchHTML
Post(u) ==
  /\ pc = "idle"
  /\ url' = u
  /\ outcome' = NoOutcome
  /\ caught' = NoError
  /\ seoData' = NoSeoData
  /\ scoreResult' = NoScore
  /\ rejected' = FALSE
  /\ response' = Validate(u)
  /\ IF response' # NoResponse
       THEN /\ sent' = 1
            /\ stages' = <<"validate">>
            /\ pc' = "done"
       ELSE /\ sent' = 0
            /\ stages' = <<"validate", "fetch">>
            /\ pc' = "awaiting"

\* res.status(errorResponse.status).json(...): handleError returned, or it threw and
\* the handler's promise rejects
Respond(errorResponse) ==
  IF errorResponse.threw
    THEN /\ rejected' = TRUE
         /\ response' \in UncaughtOutcomes
         /\ sent' = IF response'.kind = "none" THEN sent ELSE sent + 1
    ELSE /\ rejected' = FALSE
         /\ response' = ErrorJson(errorResponse.status, errorResponse.error,
                                  errorResponse.message)
         /\ sent' = sent + 1

\* the route's catch block
Catch(error) ==
  /\ caught' = error
  /\ pc' = "done"
  /\ UNCHANGED <<url, stages, seoData, scoreResult>>
  /\ Respond(HandleError(error))

\* the rest of the try block once fetchHTML has settled with f
AfterFetch(f) ==
  IF f.threw
    THEN Catch(f.error)
    ELSE /\ seoData' = ParseSEOData(f.html, url.str)
         /\ scoreResult' = CalculateScore(seoData')
         /\ response' = SuccessJson(url.str, scoreResult')
         /\ sent' = sent + 1
         /\ stages' = stages \o <<"extract", "score">>
         /\ pc' = "done"
         /\ UNCHANGED <<url, caught, rejected>>

\* the rest of the handler once axios.get has settled with o
Continue(o) ==
  /\ outcome' = o
  /\ AfterFetch(FetchHTML(o))

\* axios.get resolves with a response that passed validateStatus
AxiosResolve(r) ==
  /\ pc = "awaiting"
  /\ Continue(Resolved(r))

\* axios.get rejects
AxiosReject(e) ==
  /\ pc = "awaiting"
  /\ Continue(Rejected(e))

Next ==
  \/ \E u \in UrlInputs : Post(u)
  \/ \E r \in Responses : AxiosResolve(r)
  \/ \E e \in AxiosErrors : AxiosReject(e)

Spec == Init /\ [][Next]_vars

(***************************************************************************)
(* calculateScore on its own: every SeoSignals record is scored.           *)
(***************************************************************************)
SeoSignals ==
  {[title |-> t, metaDescription |-> m, h1Count |-> h, totalImages |-> n,
    imagesMissingAlt |-> k, totalInternalLinks |-> 0, usesHTTPS |-> s] :
     t \in {JsNull, JsString(""), JsString("Test")},
     m \in {JsNull, JsString(""), JsString("desc")},
     h \in 0..MaxH1, n \in 0..MaxImgs, k \in 0..MaxImgs, s \in BOOLEAN}

ScoreInit ==
  /\ pc = "scoring"
  /\ seoData \in SeoSignals
  /\ url = JsUndefined
  /\ stages = <<>>
  /\ outcome = NoOutcome
  /\ caught = NoError
  /\ scoreResult = NoScore
  /\ response = NoResponse
  /\ sent = 0
  /\ rejected = FALSE

ScoreApply ==
  /\ pc = "scoring"
  /\ scoreResult' = CalculateScore(seoData)
  /\ pc' = "scored"
  /\ UNCHANGED <<url, stages, outcome, caught, seoData, response, sent, rejected>>

ScoreNext == ScoreApply

SpecScore == ScoreInit /\ [][ScoreNext]_vars

(***************************************************************************)
(* Requests in flight together.  The handler keeps its state in the locals *)
(* of one invocation (url, html, seoData, scoreResult, checks) and the     *)
(* modules declare no variable that a handler writes; each variable holds  *)
(* one value per request, and a step runs one handler from its start to    *)
(* the await, or from the settling of its axios.get to its end.            *)
(***************************************************************************)
Reqs == 1..MaxReqs

ConcUrls == {JsNumber(12345), JsString("http://example.com"), JsString("https://example.com")}

IssuesDoc ==
  [titles |-> <<>>, metas |-> <<Meta("DESCRIPTION", "DESC")>>, h1Count |-> 0,
   imgs |-> <<[hasAlt |-> FALSE, alt |-> ""]>>, links |-> <<>>]

ConcOutcomes ==
  {Resolved([status |-> 200, contentType |-> "text/html; charset=utf-8",
             data |-> StringBody(512, FALSE, FullDoc)]),
   Resolved([status |-> 200, contentType |-> "text/html; charset=utf-8",
             data |-> StringBody(512, FALSE, IssuesDoc)]),
   Resolved([status |-> 200, contentType |-> "text/plain", data |-> NoBody]),
   Rejected(AxiosError("timeout of 10000ms exceeded", "ECONNABORTED")),
   Rejected(AxiosStatusError(404))}

\* the locals of one invocation, as a record
Local(r) ==
  [pc |-> pc[r], url |-> url[r], stages |-> stages[r], outcome |-> outcome[r],
   caught |-> caught[r], seoData |-> seoData[r], scoreResult |-> scoreResult[r],
   response |-> response[r], sent |-> sent[r], rejected |-> rejected[r]]

IdleLocal ==
  [pc |-> "idle", url |-> JsUndefined, stages |-> <<>>, outcome |-> NoOutcome,
   caught |-> NoError, seoData |-> NoSeoData, scoreResult |-> NoScore,
   response |-> NoResponse, sent |-> 0, rejected |-> FALSE]

\* the handler up to the await of fetchHTML, v being the validation's answer
StartWith(u, v) ==
  [IdleLocal EXCEPT
     !.url = u,
     !.response = v,
     !.sent = IF v # NoResponse THEN 1 ELSE 0,
     !.stages = IF v # NoResponse THEN <<"validate">> ELSE <<"validate", "fetch">>,
     !.pc = IF v # NoResponse THEN "done" ELSE "awaiting"]

HandlerStart(u) == StartWith(u, Validate(u))

\* the catch block, errorResponse being handleError's result
CaughtWith(local, o, error, errorResponse, uncaught) ==
  [local EXCEPT
     !.pc = "done",
     !.outcome = o,
     !.caught = error,
     !.rejected = errorResponse.threw,
     !.response = IF errorResponse.threw THEN uncaught
                  ELSE ErrorJson(errorResponse.status, errorResponse.error,
                                 errorResponse.message),
     !.sent = IF errorResponse.threw /\ uncaught.kind = "none"
                THEN local.sent ELSE local.sent + 1]

\* calculateScore and res.json
ScoredWith(local, o, data, result) ==
  [local EXCEPT
     !.pc = "done",
     !.outcome = o,
     !.seoData = data,
     !.scoreResult = result,
     !.response = SuccessJson(local.url.str, result),
     !.sent = local.sent + 1,
     !.stages = local.stages \o <<"extract", "score">>]

ParsedWith(local, o, data) == ScoredWith(local, o, data, CalculateScore(data))

\* the rest of the handler, f being what fetchHTML settled with
ResumeWith(local, o, f, uncaught) ==
  IF f.threw
    THEN CaughtWith(local, o, f.error, HandleError(f.error), uncaught)
    ELSE ParsedWith(local, o, ParseSEOData(f.html, local.url.str))

HandlerResume(local, o, uncaught) == ResumeWith(local, o, FetchHTML(o), uncaught)

\* variant: url is a variable of the module, written by every invocation
SetRequest_SharedUrl(r, local) ==
  /\ pc' = [pc EXCEPT ![r] = local.pc]
  /\ url' = [q \in Reqs |-> local.url]
  /\ stages' = [stages EXCEPT ![r] = local.stages]
  /\ outcome' = [outcome EXCEPT ![r] = local.outcome]
  /\ caught' = [caught EXCEPT ![r] = local.caught]
  /\ seoData' = [seoData EXCEPT ![r] = local.seoData]
  /\ scoreResult' = [scoreResult EXCEPT ![r] = local.scoreResult]
  /\ response' = [response EXCEPT ![r] = local.response]
  /\ sent' = [sent EXCEPT ![r] = local.sent]
  /\ rejected' = [rejected EXCEPT ![r] = local.rejected]

\* an invocation writes its own locals only
SetRequest(r, local) ==
  /\ pc' = [pc EXCEPT ![r] = local.pc]
  /\ url' = [url EXCEPT ![r] = local.url]
  /\ stages' = [stages EXCEPT ![r] = local.stages]
  /\ outcome' = [outcome EXCEPT ![r] = local.outcome]
  /\ caught' = [caught EXCEPT ![r] = local.caught]
  /\ seoData' = [seoData EXCEPT ![r] = local.seoData]
  /\ scoreResult' = [scoreResult EXCEPT ![r] = local.scoreResult]
  /\ response' = [response EXCEPT ![r] = local.response]
  /\ sent' = [sent EXCEPT ![r] = local.sent]
  /\ rejected' = [rejected EXCEPT ![r] = local.rejected]

ConcInit ==
  /\ pc = [r \in Reqs |-> IdleLocal.pc]
  /\ url = [r \in Reqs |-> IdleLocal.url]
  /\ stages = [r \in Reqs |-> IdleLocal.stages]
  /\ outcome = [r \in Reqs |-> IdleLocal.outcome]
  /\ caught = [r \in Reqs |-> IdleLocal.caught]
  /\ seoData = [r \in Reqs |-> IdleLocal.seoData]
  /\ scoreResult = [r \in Reqs |-> IdleLocal.scoreResult]
  /\ response = [r \in Reqs |-> IdleLocal.response]
  /\ sent = [r \in Reqs |-> IdleLocal.sent]
  /\ rejected = [r \in Reqs |-> IdleLocal.rejected]

\* request r arrives with body {url: u}
ConcPost(r, u) ==
  /\ pc[r] = "idle"
  /\ SetRequest(r, HandlerStart(u))

\* the axios.get of request r settles and its handler runs to the end
ConcSettle(r, o, uncaught) ==
  /\ pc[r] = "awaiting"
  /\ SetRequest(r, HandlerResume(Local(r), o, uncaught))

ConcNext ==
  \/ \E r \in Reqs, u \in ConcUrls : ConcPost(r, u)
  \/ \E r \in Reqs, o \in ConcOutcomes, uncaught \in UncaughtOutcomes : ConcSettle(r, o, uncaught)

SpecConc == ConcInit /\ [][ConcNext]_vars

(***************************************************************************)
(* Vocabulary of the properties: the cases of a request, read off its      *)
(* input and the way the fetch settled.                                    *)
(***************************************************************************)
Range(seq) == {seq[i] : i \in 1..Len(seq)}

Present(v) == v # JsUndefined /\ v # JsNull

HttpScheme(s) == NewURL(s).protocol \in {"http:", "https:"}

\* the url is not a non-empty string that parses as an absolute http(s) URL
InvalidInput(v) ==
  \/ ~Present(v)
  \/ TypeOf(v) # "string"
  \/ v.str = ""
  \/ ~NewURL(v.str).ok
  \/ ~HttpScheme(v.str)

SupportedType(ct) == Includes(ct, "text/html") \/ Includes(ct, "text/plain")

\* a string body that is empty or only whitespace
BlankBody(b) == b.kind = "string" /\ (b.len = 0 \/ b.blank)

FetchSettled == pc = "done" /\ "fetch" \in Range(stages)

GotResponse == FetchSettled /\ outcome.resolved

TargetAnswered == FetchSettled /\ ~outcome.resolved /\ outcome.error.hasResponse

TransportFailed(codes) ==
  FetchSettled /\ ~outcome.resolved /\ ~outcome.error.hasResponse /\ outcome.error.code \in codes

TimedOut == TransportFailed({"ECONNABORTED", "ETIMEDOUT"})

DnsFailed == TransportFailed({"ENOTFOUND", "EAI_AGAIN"})

ConnectionRefused == TransportFailed({"ECONNREFUSED"})

UnsupportedContentType == GotResponse /\ ~SupportedType(outcome.response.contentType)

EmptyContent ==
  GotResponse /\ SupportedType(outcome.response.contentType) /\ BlankBody(outcome.response.data)

ContentTooLarge ==
  /\ GotResponse
  /\ SupportedType(outcome.response.contentType)
  /\ outcome.response.data.kind = "string"
  /\ ~BlankBody(outcome.response.data)
  /\ outcome.response.data.len > MAX_SIZE

FetchSucceeded ==
  /\ GotResponse
  /\ SupportedType(outcome.response.contentType)
  /\ outcome.response.data.kind = "string"
  /\ ~BlankBody(outcome.response.data)
  /\ outcome.response.data.len <= MAX_SIZE

\* a well-formed body of the endpoint: the 200 success body or {error, message} with a status
WellFormedResponse ==
  \/ response.kind = "success" /\ response.status = 200
  \/ /\ response.kind = "error"
     /\ response.status \in 400..599
     /\ response.error # ""
     /\ response.message # ""

(***************************************************************************)
(* C1: every request gets exactly one response, the 200 success body or a  *)
(* classified error {error, message}, whatever the outcome of the fetch:   *)
(* when the handler has ended, one well-formed response was written and    *)
(* the handler did not throw.                                              *)
(***************************************************************************)
C1_ExactlyOneClassifiedResponse ==
  pc = "done" => sent = 1 /\ ~rejected /\ WellFormedResponse

(***************************************************************************)
(* C2: every input-validation failure is answered with status 400, the     *)
(* label "Invalid Request" and the validator's message.                    *)
(***************************************************************************)
C2_ValidationFailureIsInvalidRequest ==
  pc = "done" /\ InvalidInput(url) =>
    /\ response.kind = "error"
    /\ response.status = 400
    /\ response.error = "Invalid Request"
    /\ response.message \in
         {"URL is required in request body", "URL must be a string",
          "URL must be a valid URL", "URL must use http or https protocol"}

(***************************************************************************)
(* C3: the validator reports MissingField only for an absent, null or      *)
(* empty url, InvalidType for every present non-string url (0 and false    *)
(* included), then InvalidFormat, then InvalidProtocol; the first check    *)
(* that applies decides.                                                   *)
(***************************************************************************)
C3_ValidatorCategories ==
  pc = "done" /\ InvalidInput(url) =>
    response.message =
      IF ~Present(url) \/ url = JsString("") THEN "URL is required in request body"
      ELSE IF TypeOf(url) # "string" THEN "URL must be a string"
      ELSE IF ~NewURL(url.str).ok THEN "URL must be a valid URL"
      ELSE "URL must use http or https protocol"

(***************************************************************************)
(* C4: a non-2xx status s from the target is answered with the message     *)
(* "Target server returned error: s", as 400 "Bad Request" when            *)
(* 400 <= s < 500 and as 502 "Bad Gateway" when s >= 500.                  *)
(***************************************************************************)
C4_TargetStatusClassified ==
  TargetAnswered /\ outcome.error.status >= 400 =>
    LET s == outcome.error.status
    IN  /\ response.message = "Target server returned error: " \o ToString(s)
        /\ (s >= 400 /\ s < 500 => response.status = 400 /\ response.error = "Bad Request")
        /\ (s >= 500 => response.status = 502 /\ response.error = "Bad Gateway")

(***************************************************************************)
(* C5: a failure that matches no specific row of the classification table  *)
(* (unsupported content type, TLS failure, redirect limit, unknown         *)
(* transport failure) is answered with 500 "Internal Server Error" and     *)
(* "An unexpected error occurred during analysis".                         *)
(***************************************************************************)
C5_UnclassifiedIs500 ==
  UnsupportedContentType \/ TransportFailed({"ECONNRESET", "ERR_FR_TOO_MANY_REDIRECTS", "EPROTO"})
    => response = ErrorJson(500, "Internal Server Error",
                            "An unexpected error occurred during analysis")

(***************************************************************************)
(* C6: a fetch that exceeds the timeout (connection or read) is answered   *)
(* with 408 "Request Timeout" and "The request timed out while fetching    *)
(* the URL"; DNS failure, connection refused, empty content and oversized  *)
(* content are never answered with 408.                                    *)
(***************************************************************************)
C6_TimeoutIs408 ==
  /\ TimedOut => response = ErrorJson(408, "Request Timeout",
                                      "The request timed out while fetching the URL")
  /\ DnsFailed \/ ConnectionRefused \/ EmptyContent \/ ContentTooLarge
       => response.status # 408

C6_Witness ==
  /\ TimedOut
  /\ outcome.error.code = "ETIMEDOUT"
  /\ caught.message = "Connection timeout: Unable to establish connection"
  /\ response.status = 408

(***************************************************************************)
(* C7: a 2xx response of type text/html or text/plain whose body is empty  *)
(* or only whitespace is answered with 422 "Unprocessable Content" and     *)
(* "The page returned empty or no HTML content".  The empty check comes    *)
(* after the content-type check (an empty body of another type is not a    *)
(* 422) and before the size check (an oversized blank body is a 422), and  *)
(* the error is still recognised after the fetcher's catch block has       *)
(* wrapped it.                                                             *)
(***************************************************************************)
C7_EmptyContentIs422 ==
  /\ EmptyContent =>
       /\ response = ErrorJson(422, "Unprocessable Content",
                               "The page returned empty or no HTML content")
       /\ caught.message = "Failed to fetch URL: Empty HTML: Page returned no content"
  /\ UnsupportedContentType /\ BlankBody(outcome.response.data) => response.status # 422

C7_Witness ==
  /\ EmptyContent
  /\ outcome.response.data.len > MAX_SIZE
  /\ response.status = 422

(***************************************************************************)
(* The five checks in their order: the pass message and the text that      *)
(* identifies the issue of each.                                           *)
(***************************************************************************)
PassMessages ==
  <<"Page has a title tag", "Page has a meta description", "Page has at least one H1 tag",
    "All images have alt text", "Page uses HTTPS">>

IssueTexts ==
  <<"Missing page title tag", "Missing meta description", "No H1 tags found on the page",
    " image(s) missing alt text", "Page does not use HTTPS">>

IsPassOf(k, msg) == msg = PassMessages[k]

IsIssueOf(k, msg) ==
  IF k = 4 THEN Len(msg) > Len(IssueTexts[4])
                /\ SubSeq(msg, Len(msg) - Len(IssueTexts[4]) + 1, Len(msg)) = IssueTexts[4]
  ELSE msg = IssueTexts[k]

Count(seq, P(_)) == Cardinality({i \in 1..Len(seq) : P(seq[i])})

\* every entry belongs to one of the five checks, and the entries follow the check order
InCheckOrder(seq, Of(_, _)) ==
  /\ \A i \in 1..Len(seq) : \E k \in 1..5 : Of(k, seq[i])
  /\ \A i, j \in 1..Len(seq) : \A k, l \in 1..5 :
       i < j /\ Of(k, seq[i]) /\ Of(l, seq[j]) => k < l

(***************************************************************************)
(* C8: for every SeoSignals record calculateScore returns a score between  *)
(* 0 and 100 that is a multiple of 20 and 20 times the number of passed    *)
(* checks; passedChecks and issues hold five entries together, and each of *)
(* the five checks has exactly one entry in exactly one of the two lists.  *)
(***************************************************************************)
C8_ScoreShape ==
  pc = "scored" =>
    /\ scoreResult.score \in 0..100
    /\ scoreResult.score % 20 = 0
    /\ scoreResult.score = 20 * Len(scoreResult.passedChecks)
    /\ Len(scoreResult.passedChecks) + Len(scoreResult.issues) = 5
    /\ \A k \in 1..5 :
         Count(scoreResult.passedChecks, LAMBDA m : IsPassOf(k, m))
           + Count(scoreResult.issues, LAMBDA m : IsIssueOf(k, m)) = 1

C8_Witness ==
  /\ pc = "scored"
  /\ scoreResult.score = 60
  /\ Len(scoreResult.passedChecks) = 3
  /\ Len(scoreResult.issues) = 2

(***************************************************************************)
(* C9: in every success response checks is passedChecks followed by        *)
(* issues, and inside passedChecks and inside issues the messages come in  *)
(* the order title, meta description, H1, image alt text, HTTPS.           *)
(***************************************************************************)
C9_ChecksIsPassedThenIssues ==
  pc = "done" /\ response.kind = "success" =>
    /\ response.checks = response.passedChecks \o response.issues
    /\ InCheckOrder(response.passedChecks, IsPassOf)
    /\ InCheckOrder(response.issues, IsIssueOf)

C9_Witness ==
  /\ pc = "done"
  /\ response.kind = "success"
  /\ Len(response.passedChecks) >= 2
  /\ Len(response.issues) >= 2
  /\ Len(response.checks) = 5

(***************************************************************************)
(* C10: within one request the stages run in the order validate, fetch,    *)
(* extract, score, each at most once; the fetch is issued only after a     *)
(* successful validation and only once, extract and score run only after   *)
(* a successful fetch, and no stage runs after a failed one.               *)
(***************************************************************************)
StageOrder == <<"validate", "fetch", "extract", "score">>

IsPrefix(a, b) == Len(a) <= Len(b) /\ a = SubSeq(b, 1, Len(a))

C10_StagesInOrderOnce ==
  /\ IsPrefix(stages, StageOrder)
  /\ "fetch" \in Range(stages) => ~InvalidInput(url)
  /\ pc # "idle" /\ InvalidInput(url) => stages = <<"validate">>
  /\ "extract" \in Range(stages) \/ "score" \in Range(stages) => FetchSucceeded
  /\ FetchSettled /\ ~FetchSucceeded => stages = <<"validate", "fetch">>
  /\ FetchSucceeded => stages = StageOrder

C10_Witness ==
  /\ FetchSettled
  /\ ~FetchSucceeded
  /\ stages = <<"validate", "fetch">>
  /\ response.status = 413

(***************************************************************************)
(* C11: a 200 success response is produced only if the single fetch        *)
(* returned a 2xx status, a content type containing text/html or           *)
(* text/plain, a non-empty non-whitespace string body and a body of at     *)
(* most 10 MiB (10 * 1024 * 1024); a body of exactly 10 MiB is accepted,   *)
(* one unit more is answered 413 "Payload Too Large".                      *)
(***************************************************************************)
TenMiB == 10 * 1024 * 1024

\* a page of the given length that passes every other check of the fetcher
PageOfLength(n) ==
  /\ GotResponse
  /\ SupportedType(outcome.response.contentType)
  /\ outcome.response.data.kind = "string"
  /\ ~BlankBody(outcome.response.data)
  /\ outcome.response.data.len = n

C11_SuccessOnlyForAcceptedPage ==
  /\ response.kind = "success" =>
       /\ pc = "done"
       /\ Len(SelectSeq(stages, LAMBDA st : st = "fetch")) = 1
       /\ outcome.resolved
       /\ outcome.response.status \in 200..299
       /\ SupportedType(outcome.response.contentType)
       /\ outcome.response.data.kind = "string"
       /\ ~BlankBody(outcome.response.data)
       /\ outcome.response.data.len <= TenMiB
  /\ PageOfLength(TenMiB) => response.kind = "success" /\ response.status = 200
  /\ PageOfLength(TenMiB + 1) =>
       /\ response.kind = "error"
       /\ response.status = 413
       /\ response.error = "Payload Too Large"

C11_Witness ==
  /\ PageOfLength(TenMiB)
  /\ response.kind = "success"
  /\ response.seoScore = IF NewURL(url.str).protocol = "https:" THEN 100 ELSE 80

(***************************************************************************)
(* The page a success response was computed from.                          *)
(***************************************************************************)
Succeeded == pc = "done" /\ response.kind = "success"

PageDoc == outcome.response.data.doc

\* number of <img> elements whose alt attribute is absent or trims to empty
ImagesWithoutAlt ==
  Cardinality({i \in 1..Len(PageDoc.imgs) :
                 ~PageDoc.imgs[i].hasAlt \/ Trim(PageDoc.imgs[i].alt) = ""})

(***************************************************************************)
(* C13: the image check passes ("All images have alt text", 20 points) iff *)
(* totalImages = 0 or imagesMissingAlt = 0; otherwise the issue is exactly *)
(* "N image(s) missing alt text", N being the number of <img> elements     *)
(* whose alt is absent or trims to empty; N never exceeds totalImages.     *)
(***************************************************************************)
C13_ImageCheck ==
  Succeeded =>
    /\ seoData.totalImages = Len(PageDoc.imgs)
    /\ seoData.imagesMissingAlt = ImagesWithoutAlt
    /\ seoData.imagesMissingAlt <= seoData.totalImages
    /\ "All images have alt text" \in Range(response.passedChecks)
         <=> (seoData.totalImages = 0 \/ seoData.imagesMissingAlt = 0)
    /\ IF seoData.totalImages = 0 \/ seoData.imagesMissingAlt = 0
         THEN /\ \A i \in 1..Len(response.issues) : ~IsIssueOf(4, response.issues[i])
              /\ response.seoScore = 20 * Len(response.passedChecks)
         ELSE /\ Count(response.issues, LAMBDA m : IsIssueOf(4, m)) = 1
              /\ ToString(ImagesWithoutAlt) \o " image(s) missing alt text"
                   \in Range(response.issues)

C13_Witness ==
  /\ Succeeded
  /\ Len(PageDoc.imgs) = 2
  /\ PageDoc.imgs[1] = [hasAlt |-> TRUE, alt |-> "logo"]
  /\ PageDoc.imgs[2] = [hasAlt |-> TRUE, alt |-> "  "]
  /\ "1 image(s) missing alt text" \in Range(response.issues)

(***************************************************************************)
(* C14: metaDescription is the content attribute of the first <meta>       *)
(* element whose name equals "description" compared case-insensitively     *)
(* (description, Description and DESCRIPTION all match) and is absent only *)
(* if there is no such element; so the meta-description check passes for   *)
(* any casing of the name.                                                 *)
(***************************************************************************)
\* the <meta> elements named description in any casing, in document order
DescriptionMetas == SelectSeq(PageDoc.metas, LAMBDA m : ToLower(m.name) = "description")

C14_MetaNameAnyCase ==
  Succeeded =>
    /\ DescriptionMetas = <<>> => seoData.metaDescription = JsNull
    /\ /\ DescriptionMetas # <<>>
       /\ DescriptionMetas[1].hasContent
       /\ DescriptionMetas[1].content # ""
       => /\ seoData.metaDescription = JsString(DescriptionMetas[1].content)
          /\ "Page has a meta description" \in Range(response.passedChecks)

(***************************************************************************)
(* The responses a request with body url u and fetch outcome o gets when   *)
(* it is the only request.                                                 *)
(***************************************************************************)
AloneClassified(errorResponse) ==
  IF errorResponse.threw THEN UncaughtOutcomes
  ELSE {ErrorJson(errorResponse.status, errorResponse.error, errorResponse.message)}

AloneAfterFetch(u, f) ==
  IF f.threw THEN AloneClassified(HandleError(f.error))
  ELSE {SuccessJson(u.str, CalculateScore(ParseSEOData(f.html, u.str)))}

AloneResponses(u, o) ==
  IF Validate(u) # NoResponse THEN {Validate(u)} ELSE AloneAfterFetch(u, FetchHTML(o))

\* every answered request has a response it would get alone with its url and fetch outcome
AnsweredAsAlone ==
  \A r \in Reqs : pc[r] = "done" => response[r] \in AloneResponses(url[r], outcome[r])

\* a step that changes the state of request r changes no other request's state, does not
\* change r's url once r has arrived, and changes nothing of r once r is answered
StepTouchesOneRequest ==
  \A r \in Reqs :
    Local(r)' # Local(r) =>
      /\ \A q \in Reqs \ {r} : Local(q)' = Local(q)
      /\ pc[r] # "idle" => url'[r] = url[r]
      /\ pc[r] # "done"

====
